---- MODULE Spec2Model ----
(***************************************************************************)
(* State-machine model of puzzle-js startup: Storefront (storefront.ts)    *)
(* and Server (server.ts).                                                 *)
(*                                                                         *)
(* JavaScript runs one event-loop turn to completion.  A turn of the       *)
(* startup pipeline is modelled as a chain of stage actions; while the     *)
(* chain is running (pc = "run") or a bind result is pending, no outside   *)
(* event (gateway ready, published route, close, listen, init) is enabled. *)
(* `series` (package async) is modelled by its documented contract: tasks  *)
(* start in order, each after the previous one called its callback with    *)
(* no error; the first error goes to the final callback.  EventEmitter     *)
(* `once` removes the listener on first delivery.                          *)
(***************************************************************************)
EXTENDS Integers, Sequences, FiniteSets, TLC

\* ------------------------------------------------------------------ bounds
MaxGateways == 2      \* longest config.gateways
MaxPages == 1         \* longest config.pages
MaxEmits == 2         \* ready events one gateway may fire
MaxPublish == 1       \* ADD_ROUTE events published on pubsub
MaxListen == 2        \* calls of Server.listen from outside init
MaxRegistrations == 1 \* direct calls of addRoute, addUse and setStatic
MaxHeaders == 2       \* longest list of custom headers
MaxRequests == 2      \* requests handled by the custom headers middleware

\* --------------------------------------------------------------- constants
H2 == "h2"
SPDY == "spdy"
HTTP1 == "http/1.1"
Protocols == {H2, SPDY, HTTP1}

NStages == 7
StageNames ==
  << "registerDependencies", "waitForGateways", "registerDebugScripts",
     "addCustomHeaders", "addHealthCheckRoute", "preLoadPages", "addPageRoute" >>

NoErr == "null"

VARIABLES
  config,             \* IStorefrontConfig given to the constructor
  flags,              \* USE_MORGAN, USE_HELMET, BROTLI of ./config
  gateways,           \* Storefront.gateways: name -> gateway instance (index in config.gateways)
  gatewaysReady,      \* Storefront.gatewaysReady
  subscribed,         \* per gateway instance: the once(GATEWAY_READY) listener is still installed
  emitted,            \* per gateway instance: GATEWAY_READY events fired so far
  pages,              \* Storefront.pages, a Map: its entries and its own enumerable properties
  recompiled,         \* page names whose reCompile() preLoadPages has called
  warming,            \* page names whose reCompile() has not completed yet
  called,             \* @callableOnce guard of init
  appAtInit,          \* the express stack as it was when init ran series([...])
  reinit,             \* init was called again after its first call
  pc,                 \* position of the pipeline
  next,               \* index of the series task to start next (NStages + 1: the final callback)
  started,            \* sequence of stage indices in the order they were started
  done,               \* stages whose continuation has fired
  err,                \* error given to the continuation by the last stage
  suspended,          \* waitForGateways has awaited wait(...) at least once
  app,                \* Server.app: the express stack, in registration order
  server,             \* Server.server: 0 (null) or the id of a listener
  open,               \* the listeners that are open: records [id, kind, timeout, by]
  spdyConfiguration,  \* Server.spdyConfiguration
  listenCalls,        \* calls of Server.listen so far
  binding,            \* listeners whose bind result is pending: records [id, by]
  cbCalls,            \* invocations of the cb given to init
  published,          \* ADD_ROUTE events published so far
  readyCalls,         \* invocations of the callback that listen hands to the listener
  hdr,                \* the custom headers, the environment, and what the middleware did to the last response
  afterClose          \* "no", or what the last call of close() found, while nothing was registered since:
                      \* "stopped" (a listener, which it closed) or "noop" (this.server was null)

vars == << config, flags, appAtInit, gateways, gatewaysReady, subscribed, emitted, pages, recompiled, warming,
           called, reinit, pc, next, started, done, err, suspended, app, server, open,
           spdyConfiguration, listenCalls, binding, cbCalls, published, readyCalls, hdr, afterClose >>

storefrontVars == << gateways, gatewaysReady, subscribed, emitted, pages, recompiled, warming,
                     called, reinit, pc, next, started, done, err, suspended, cbCalls >>
serverVars == << app, server, open, spdyConfiguration, listenCalls, binding, published,
                 readyCalls, afterClose >>

\* ------------------------------------------------------------------ helpers
Range(s) == { s[i] : i \in DOMAIN s }

\* The name lists of length <= n, up to renaming.  Gateway and page names are
\* unique keys (IGatewayMap, IPageMap): a list names each of them once.
NameSeqs(n) == { [i \in 1..k |-> i] : k \in 0..n }

\* ---------------------------------------------------------------- Server
Use(path, handler) ==
  [type |-> "use", path |-> path, method |-> "*", handler |-> handler, page |-> 0]

Route(path, method, handler, page) ==
  [type |-> "route", path |-> path, method |-> method, handler |-> handler, page |-> page]

\* Server.addMiddlewares: the stack a fresh express app is given.
AddMiddlewares(f) ==
  << Use("", "responseTime") >>
  \o (IF f.morgan THEN << Use("", "morgan") >> ELSE << >>)
  \o (IF f.helmet THEN << Use("", "helmet") >> ELSE << >>)
  \o << Use("", "bodyParser.urlencoded"), Use("", "bodyParser.json"), Use("", "cookieParser") >>
  \o << Use("", IF f.brotli THEN "shrinkRay" ELSE "compression") >>

NoOptions == [set |-> FALSE, cert |-> FALSE, key |-> FALSE, protocols |-> {}]

\* Server.useProtocolOptions: absent options leave the stored configuration alone.
UseProtocolOptions(current, options) ==
  IF options.set
    THEN [set |-> TRUE, cert |-> options.cert, key |-> options.key,
          protocols |-> options.protocols]
    ELSE current

\* SelectListener with the certificate test ahead of the protocol test.
SelectListener_TlsFirst(c) ==
  IF c.set /\ c.cert /\ c.key
    THEN "https"
    ELSE IF c.set /\ (H2 \in c.protocols \/ SPDY \in c.protocols) THEN "spdy" ELSE "http"

\* SelectListener with the key left out of the TLS test.
SelectListener_CertOnly(c) ==
  IF c.set /\ (H2 \in c.protocols \/ SPDY \in c.protocols)
    THEN "spdy"
    ELSE IF c.set /\ c.cert THEN "https" ELSE "http"

\* SelectListener with the multiplexed branch asking for certificate and key
\* too, so that a configuration without them falls through to the next branch.
SelectListener_Validating(c) ==
  IF c.set /\ (H2 \in c.protocols \/ SPDY \in c.protocols) /\ c.cert /\ c.key
    THEN "spdy"
    ELSE IF c.set /\ c.cert /\ c.key THEN "https" ELSE "http"

\* Server.listen, the branch taken: which kind of listener is created.
SelectListener(c) ==
  IF c.set /\ (H2 \in c.protocols \/ SPDY \in c.protocols)
    THEN "spdy"
    ELSE IF c.set /\ c.cert /\ c.key THEN "https" ELSE "http"

\* Server.addRoute
AddRoute(a, path, method, handler, page) == Append(a, Route(path, method, handler, page))

\* Server.addUse
AddUse(a, path, handler) == Append(a, Use(path, handler))

\* Server.addCustomHeaders: one global middleware, only when a list is given.
AddCustomHeaders(a, customHeaders) ==
  IF customHeaders THEN AddUse(a, "", "customHeaders") ELSE a

\* ---- the custom headers middleware
HeaderKeys == {"X", "Y"}
EnvNames == {"FOO", "BAR"}

\* process.env[name]: undefined, the empty string, or some content.
Unset == [set |-> FALSE, val |-> ""]
EnvValues == { Unset, [set |-> TRUE, val |-> ""], [set |-> TRUE, val |-> "bar"] }
Environments == [EnvNames -> EnvValues]

\* ICustomHeader lists of at most MaxHeaders entries.
CustomHeaderLists ==
  UNION { [1..k -> [key : HeaderKeys, value : EnvNames, isEnv : BOOLEAN]] : k \in 0..MaxHeaders }

\* The truth value JavaScript gives process.env[name] in a condition.
Truthy(v) == v.set /\ v.val # ""

\* let value = customHeader.value.toString();
\* if (customHeader.isEnv && process.env[value]) value = process.env[value];
HeaderValue(h, env) ==
  IF h.isEnv /\ Truthy(env[h.value]) THEN env[h.value].val ELSE h.value

\* res.header(key, value)
ResHeader(res, key, value) ==
  [k \in DOMAIN res \cup {key} |-> IF k = key THEN value ELSE res[k]]

RECURSIVE ForEachHeader(_, _, _)
\* customHeaders.forEach(customHeader => ... res.header(customHeader.key, value))
ForEachHeader(res, list, env) ==
  IF list = << >> THEN res
  ELSE ForEachHeader(ResHeader(res, Head(list).key, HeaderValue(Head(list), env)),
                     Tail(list), env)

NoResponse == [k \in {} |-> ""]

\* No custom headers, nothing in the environment, no request handled.
NoHeaders ==
  [defined |-> FALSE, list |-> << >>, env |-> [n \in EnvNames |-> Unset],
   res |-> NoResponse, requests |-> 0, nexts |-> 0]

\* -------------------------------------------------------------- Storefront
\* createStorefrontPagesAndGateways: this.gateways[name] = gateway, the last
\* instance of a name stays.
CreateGateways(cfg) ==
  [ n \in Range(cfg) |->
      CHOOSE i \in DOMAIN cfg : cfg[i] = n /\ \A j \in DOMAIN cfg : cfg[j] = n => j <= i ]

\* createStorefrontPagesAndGateways: this.pages.set(name, page).  A Map keeps
\* its entries apart from the object's own enumerable properties.
CreatePages(cfg) == [entries |-> Range(cfg), props |-> {}]

ObjectKeys(o) == DOMAIN o

\* Object.values of the pages Map: its own enumerable properties.
ObjectValues(m) == m.props

\* GatewaysPrepared with the comparison of the loop turned around.
GatewaysPrepared_Inverted(gws, ready) == ready <= Cardinality(ObjectKeys(gws))

\* The loop condition of waitForGateways, negated.
GatewaysPrepared(gws, ready) == Cardinality(ObjectKeys(gws)) = ready

\* OnGatewayReady with the listener installed twice on the instance.
OnGatewayReady_Twice(ready) == ready + 2

\* The listener of GATEWAY_READY, installed with once.
OnGatewayReady(ready) == ready + 1

\* No turn is running and no microtask (bind result, resolved Promise.all) is
\* pending: an outside event may run.
Idle == pc # "run" /\ binding = {} /\ ~(pc = "warmup" /\ warming = {})

GatewayConfigs == NameSeqs(MaxGateways)
PageConfigs == NameSeqs(MaxPages)
SpdyConfigs ==
  { NoOptions } \cup
  [set : {TRUE}, cert : BOOLEAN, key : BOOLEAN, protocols : SUBSET Protocols]
Flags == [morgan : BOOLEAN, helmet : BOOLEAN, brotli : BOOLEAN]

\* The state after `new Storefront(config, new Server())`.
Constructed(cfg, f) ==
  /\ config = cfg
  /\ flags = f
  /\ gateways = CreateGateways(cfg.gateways)
  /\ gatewaysReady = 0
  /\ subscribed = [i \in DOMAIN cfg.gateways |-> TRUE]
  /\ emitted = [i \in DOMAIN cfg.gateways |-> 0]
  /\ pages = CreatePages(cfg.pages)
  /\ recompiled = {}
  /\ warming = {}
  /\ called = FALSE
  /\ appAtInit = << >>
  /\ reinit = FALSE
  /\ pc = "constructed"
  /\ next = 1
  /\ started = << >>
  /\ done = {}
  /\ err = NoErr
  /\ suspended = FALSE
  /\ app = AddMiddlewares(f)
  /\ server = 0
  /\ open = {}
  /\ spdyConfiguration = UseProtocolOptions(NoOptions, cfg.spdy)
  /\ listenCalls = 0
  /\ binding = {}
  /\ cbCalls = 0
  /\ published = 0
  /\ readyCalls = 0
  /\ afterClose = "no"

\* The configurations the startup is explored for: every gateway and page
\* list within the bounds, with and without custom headers, one protocol
\* configuration per branch of listen.
StartupSpdyConfigs ==
  { NoOptions,
    [set |-> TRUE, cert |-> TRUE, key |-> TRUE, protocols |-> {HTTP1}],
    [set |-> TRUE, cert |-> TRUE, key |-> TRUE, protocols |-> {H2, HTTP1}] }
StartupFlags ==
  { [morgan |-> FALSE, helmet |-> FALSE, brotli |-> FALSE],
    [morgan |-> TRUE, helmet |-> TRUE, brotli |-> TRUE] }

\* `failing` names the configured pages whose reCompile() rejects.
Configs ==
  { c \in [gateways : GatewayConfigs, pages : PageConfigs, spdy : StartupSpdyConfigs,
           customHeaders : BOOLEAN, failing : SUBSET (1..MaxPages)] :
      c.failing \subseteq Range(c.pages) }

Init == \E cfg \in Configs, f \in StartupFlags : Constructed(cfg, f) /\ hdr = NoHeaders

\* GatewayReady with the listener installed by on(...): it stays and counts
\* every delivery.
GatewayReady_On(i) ==
  /\ pc # "run" /\ binding = {} /\ ~(pc = "warmup" /\ warming = {})
  /\ emitted[i] < MaxEmits
  /\ emitted' = [emitted EXCEPT ![i] = @ + 1]
  /\ gatewaysReady' = gatewaysReady + 1
  /\ UNCHANGED << config, flags, hdr, appAtInit, gateways, subscribed, pages, recompiled, warming, called,
                  reinit, pc, next, started, done, err, suspended, cbCalls >>
  /\ UNCHANGED serverVars

\* GatewayReady with the listener installed by init instead of by the
\* constructor: an event fired before init finds no listener.
GatewayReady_AfterInit(i) ==
  /\ pc # "run" /\ binding = {} /\ ~(pc = "warmup" /\ warming = {})
  /\ emitted[i] < MaxEmits
  /\ emitted' = [emitted EXCEPT ![i] = @ + 1]
  /\ gatewaysReady' = IF subscribed[i] /\ called THEN gatewaysReady + 1 ELSE gatewaysReady
  /\ subscribed' = [subscribed EXCEPT ![i] = @ /\ ~called]
  /\ UNCHANGED << config, flags, hdr, appAtInit, gateways, pages, recompiled, warming, called, reinit,
                  pc, next, started, done, err, suspended, cbCalls >>
  /\ UNCHANGED serverVars

\* ---- gateways
\* Gateway instance i fires GATEWAY_READY.  The once listener runs on the
\* first delivery only and is removed by it.
GatewayReady(i) ==
  /\ Idle
  /\ emitted[i] < MaxEmits
  /\ emitted' = [emitted EXCEPT ![i] = @ + 1]
  /\ gatewaysReady' = IF subscribed[i] THEN OnGatewayReady(gatewaysReady) ELSE gatewaysReady
  /\ subscribed' = [subscribed EXCEPT ![i] = FALSE]
  /\ UNCHANGED << config, flags, hdr, appAtInit, gateways, pages, recompiled, warming, called, reinit,
                  pc, next, started, done, err, suspended, cbCalls >>
  /\ UNCHANGED serverVars

\* ---- the pipeline
\* series: the continuation of task i fired with e.
SeriesCallback(i, e) ==
  /\ done' = done \cup {i}
  /\ err' = e
  /\ next' = IF e = NoErr THEN i + 1 ELSE NStages + 1
  /\ pc' = "run"

\* Begin with the tasks started as by parallel: any task not yet started.
Begin_Parallel(i) ==
  /\ pc = "run"
  /\ i \notin Range(started)
  /\ started' = Append(started, i)

\* series starts task i.
Begin(i) ==
  /\ pc = "run"
  /\ next = i
  /\ started' = Append(started, i)

\* InitCall without the guard: every call runs series([...]).
InitCall_NotOnce ==
  /\ pc # "run" /\ binding = {} /\ ~(pc = "warmup" /\ warming = {})
  /\ reinit' = (reinit \/ called)
  /\ called' = TRUE
  /\ pc' = "run"
  /\ next' = 1
  /\ appAtInit' = app
  /\ UNCHANGED << config, flags, hdr, gateways, gatewaysReady, subscribed, emitted, pages,
                  recompiled, warming, started, done, err, suspended, cbCalls >>
  /\ UNCHANGED serverVars

\* InitCall with server.listen called next to series([...]) instead of from
\* its final callback.
InitCall_ListenOutside ==
  /\ pc # "run" /\ binding = {} /\ ~(pc = "warmup" /\ warming = {})
  /\ ~called
  /\ reinit' = reinit
  /\ called' = TRUE
  /\ pc' = "run"
  /\ next' = 1
  /\ listenCalls' = listenCalls + 1
  /\ server' = listenCalls + 1
  /\ open' = open \cup { [id |-> listenCalls + 1, kind |-> "http", timeout |-> TRUE,
                          by |-> "init"] }
  /\ appAtInit' = app
  /\ UNCHANGED << config, flags, hdr, gateways, gatewaysReady, subscribed, emitted, pages,
                  recompiled, warming, started, done, err, suspended, cbCalls >>
  /\ UNCHANGED << app, spdyConfiguration, binding, published, readyCalls, afterClose >>

\* The @callableOnce decorator (./decorators): the method body runs on the
\* first call of the instance only.
CallableOnce(calledBefore) == ~calledBefore

\* @callableOnce init(cb): a call that passes the guard runs series([...]).
InitCall ==
  /\ Idle
  /\ reinit' = (reinit \/ called)
  /\ called' = TRUE
  /\ IF CallableOnce(called)
       THEN pc' = "run" /\ next' = 1 /\ appAtInit' = app
       ELSE UNCHANGED << pc, next, appAtInit >>
  /\ UNCHANGED << config, flags, hdr, gateways, gatewaysReady, subscribed, emitted, pages,
                  recompiled, warming, started, done, err, suspended, cbCalls >>
  /\ UNCHANGED serverVars

RegisterDependencies ==
  /\ Begin(1)
  /\ SeriesCallback(1, NoErr)
  /\ UNCHANGED << config, flags, hdr, appAtInit, gateways, gatewaysReady, subscribed, emitted, pages,
                  recompiled, warming, called, reinit, suspended, cbCalls >>
  /\ UNCHANGED serverVars

\* WaitForGateways as a do-while loop: it waits once before the first test.
WaitForGateways_DoWhile ==
  /\ pc = "run"
  /\ next = 2
  /\ started' = Append(started, 2)
  /\ pc' = "waitTimer"
  /\ suspended' = TRUE
  /\ UNCHANGED << next, done, err >>
  /\ UNCHANGED << config, flags, hdr, appAtInit, gateways, gatewaysReady, subscribed, emitted, pages,
                  recompiled, warming, called, reinit, cbCalls >>
  /\ UNCHANGED serverVars

\* waitForGateways up to its first suspension.
WaitForGateways ==
  /\ Begin(2)
  /\ IF GatewaysPrepared(gateways, gatewaysReady)
       THEN SeriesCallback(2, NoErr) /\ UNCHANGED suspended
       ELSE /\ pc' = "waitTimer"
            /\ suspended' = TRUE
            /\ UNCHANGED << next, done, err >>
  /\ UNCHANGED << config, flags, hdr, appAtInit, gateways, gatewaysReady, subscribed, emitted, pages,
                  recompiled, warming, called, reinit, cbCalls >>
  /\ UNCHANGED serverVars

\* WaitTick with the loop testing the count it read when the wait began: a
\* suspended wait stays suspended.
WaitTick_StaleCount ==
  /\ pc = "waitTimer"
  /\ binding = {}
  /\ UNCHANGED vars

\* wait(GATEWAY_PREPERATION_CHECK_INTERVAL) elapsed: the loop tests again.
WaitTick ==
  /\ pc = "waitTimer"
  /\ binding = {}
  /\ IF GatewaysPrepared(gateways, gatewaysReady)
       THEN SeriesCallback(2, NoErr) /\ UNCHANGED suspended
       ELSE UNCHANGED << pc, next, done, err, suspended >>
  /\ UNCHANGED << config, flags, hdr, appAtInit, gateways, gatewaysReady, subscribed, emitted, pages,
                  recompiled, warming, called, reinit, started, cbCalls >>
  /\ UNCHANGED serverVars

RegisterDebugScripts ==
  /\ Begin(3)
  /\ app' = AddRoute(app, "PUZZLE_DEBUGGER_LINK", "GET", "debugScript", 0)
  /\ SeriesCallback(3, NoErr)
  /\ UNCHANGED << config, flags, hdr, appAtInit, gateways, gatewaysReady, subscribed, emitted, pages,
                  recompiled, warming, called, reinit, suspended, cbCalls >>
  /\ afterClose' = IF app' = app THEN afterClose ELSE "no"
  /\ UNCHANGED << server, open, spdyConfiguration, listenCalls, binding, published, readyCalls >>

AddCustomHeadersStage ==
  /\ Begin(4)
  /\ app' = AddCustomHeaders(app, config.customHeaders)
  /\ SeriesCallback(4, NoErr)
  /\ UNCHANGED << config, flags, hdr, appAtInit, gateways, gatewaysReady, subscribed, emitted, pages,
                  recompiled, warming, called, reinit, suspended, cbCalls >>
  /\ afterClose' = IF app' = app THEN afterClose ELSE "no"
  /\ UNCHANGED << server, open, spdyConfiguration, listenCalls, binding, published, readyCalls >>

AddHealthCheckRoute ==
  /\ Begin(5)
  /\ app' = AddRoute(app, "HEALTHCHECK_PATHS", "GET", "healthcheck", 0)
  /\ SeriesCallback(5, NoErr)
  /\ UNCHANGED << config, flags, hdr, appAtInit, gateways, gatewaysReady, subscribed, emitted, pages,
                  recompiled, warming, called, reinit, suspended, cbCalls >>
  /\ afterClose' = IF app' = app THEN afterClose ELSE "no"
  /\ UNCHANGED << server, open, spdyConfiguration, listenCalls, binding, published, readyCalls >>

\* preLoadPages: reCompile() of every value of Object.values(this.pages) is
\* called; the continuation waits for Promise.all of them.
PreLoadPages ==
  /\ Begin(6)
  /\ recompiled' = recompiled \cup ObjectValues(pages)
  /\ warming' = warming \cup ObjectValues(pages)
  /\ pc' = "warmup"
  /\ UNCHANGED << config, flags, hdr, appAtInit, gateways, gatewaysReady, subscribed, emitted, pages,
                  called, reinit, next, done, err, suspended, cbCalls >>
  /\ UNCHANGED serverVars

\* Promise.all(...).then(() => cb()): the continuation runs when every promise
\* of the list is fulfilled.  A rejected one has no handler: cb is not called.
PreLoadPagesThen ==
  /\ pc = "warmup"
  /\ warming = {}
  /\ recompiled \cap config.failing = {}
  /\ SeriesCallback(6, NoErr)
  /\ UNCHANGED << config, flags, hdr, appAtInit, gateways, gatewaysReady, subscribed, emitted, pages,
                  recompiled, warming, called, reinit, started, suspended, cbCalls >>
  /\ UNCHANGED serverVars

RECURSIVE PageRoutes(_, _, _)
\* addPageRoute: for each configured page that this.pages holds, a GET and a
\* POST route on its url.
PageRoutes(a, cfg, m) ==
  IF cfg = << >> THEN a
  ELSE LET p == Head(cfg)
           a1 == IF p \in m.entries
                   THEN AddRoute(AddRoute(a, "page.url", "GET", "page.handle", p),
                                 "page.url", "POST", "page.post", p)
                   ELSE a
       IN PageRoutes(a1, Tail(cfg), m)

AddPageRoute ==
  /\ Begin(7)
  /\ app' = PageRoutes(app, config.pages, pages)
  /\ SeriesCallback(7, NoErr)
  /\ UNCHANGED << config, flags, hdr, appAtInit, gateways, gatewaysReady, subscribed, emitted, pages,
                  recompiled, warming, called, reinit, suspended, cbCalls >>
  /\ afterClose' = IF app' = app THEN afterClose ELSE "no"
  /\ UNCHANGED << server, open, spdyConfiguration, listenCalls, binding, published, readyCalls >>

\* Server.listen(port, cb, ipv4): a listener of the selected kind is created,
\* this.server designates it, the request timeout is set on it.  The port and
\* the bind address only travel to the listener and are left out.
Listen(by) ==
  LET id == listenCalls + 1 IN
  /\ listenCalls' = id
  /\ open' = open \cup { [id |-> id, kind |-> SelectListener(spdyConfiguration),
                          timeout |-> TRUE, by |-> by] }
  /\ server' = id
  /\ binding' = binding \cup { [id |-> id, by |-> by] }
  /\ UNCHANGED << app, spdyConfiguration, published, readyCalls, afterClose >>

\* The final callback of series in init.
FinalCallback ==
  /\ pc = "run"
  /\ next = NStages + 1
  /\ IF err = NoErr
       THEN /\ Listen("init")
            /\ pc' = "binding"
       ELSE /\ pc' = "thrown"
            /\ UNCHANGED serverVars
  /\ UNCHANGED << config, flags, hdr, appAtInit, gateways, gatewaysReady, subscribed, emitted, pages,
                  recompiled, warming, called, reinit, next, started, done, err, suspended,
                  cbCalls >>

\* ---- the server, used from outside init
\* The listener is bound and emits 'listening': the callback given to listen
\* runs, with no argument.
BindComplete(b) ==
  /\ b \in binding
  /\ binding' = binding \ {b}
  /\ IF b.by = "init"
       THEN pc' = "listening" /\ cbCalls' = cbCalls + 1
       ELSE UNCHANGED << pc, cbCalls >>
  /\ UNCHANGED << config, flags, hdr, appAtInit, gateways, gatewaysReady, subscribed, emitted, pages,
                  recompiled, warming, called, reinit, next, started, done, err, suspended >>
  /\ readyCalls' = readyCalls + 1
  /\ UNCHANGED << app, server, open, spdyConfiguration, listenCalls, published, afterClose >>

\* The bind fails: the listener emits 'error' and never 'listening'.  The
\* callback given to listen is a listener of 'listening' and does not run;
\* this.server still designates the listener.
BindFail(b) ==
  /\ b \in binding
  /\ binding' = binding \ {b}
  /\ open' = { l \in open : l.id # b.id }
  /\ pc' = IF b.by = "init" THEN "bindFailed" ELSE pc
  /\ UNCHANGED << config, flags, hdr, appAtInit, gateways, gatewaysReady, subscribed, emitted, pages,
                  recompiled, warming, called, reinit, next, started, done, err, suspended,
                  cbCalls >>
  /\ UNCHANGED << app, server, spdyConfiguration, listenCalls, published, readyCalls, afterClose >>

\* Server.listen called by a user of the Server.
ServerListen ==
  /\ Idle
  /\ listenCalls < MaxListen
  /\ Listen("caller")
  /\ UNCHANGED << config, flags, hdr, appAtInit >>
  /\ UNCHANGED storefrontVars

\* ServerClose without `this.app = express()`: the default middlewares are
\* added once more to the stack that is there.
ServerClose_KeepsApp ==
  /\ pc # "run" /\ binding = {} /\ ~(pc = "warmup" /\ warming = {})
  /\ IF server # 0
       THEN /\ open' = { l \in open : l.id # server }
            /\ server' = 0
            /\ app' = app \o AddMiddlewares(flags)
            /\ afterClose' = "stopped"
       ELSE /\ afterClose' = "noop"
            /\ UNCHANGED << open, server, app >>
  /\ UNCHANGED << spdyConfiguration, listenCalls, binding, published, readyCalls >>
  /\ UNCHANGED << config, flags, hdr, appAtInit >>
  /\ UNCHANGED storefrontVars

\* Server.close
ServerClose ==
  /\ Idle
  /\ IF server # 0
       THEN /\ open' = { l \in open : l.id # server }
            /\ server' = 0
            /\ app' = AddMiddlewares(flags)
            /\ afterClose' = "stopped"
       ELSE /\ afterClose' = "noop"
            /\ UNCHANGED << open, server, app >>
  /\ UNCHANGED << spdyConfiguration, listenCalls, binding, published, readyCalls >>
  /\ UNCHANGED << config, flags, hdr, appAtInit >>
  /\ UNCHANGED storefrontVars

\* pubsub (./util), an event emitter: publishing an event runs the listener
\* subscribed with on(...) once, in the publisher's turn.
PubsubEmit(listener) == << listener >>

\* Publish with the subscription lost to close(): a Server that was closed
\* and not started again gets no event.
Publish_ResetByClose ==
  /\ pc # "run" /\ binding = {} /\ ~(pc = "warmup" /\ warming = {})
  /\ published < MaxPublish
  /\ published' = published + 1
  /\ app' = IF server = 0 /\ listenCalls > 0
              THEN app
              ELSE AddRoute(app, "e.path", "e.method", "e.handler", 0)
  /\ afterClose' = IF app' = app THEN afterClose ELSE "no"
  /\ UNCHANGED << server, open, spdyConfiguration, listenCalls, binding, readyCalls >>
  /\ UNCHANGED << config, flags, hdr, appAtInit >>
  /\ UNCHANGED storefrontVars

\* pubsub.on(EVENTS.ADD_ROUTE, e => this.addRoute(e.path, e.method, e.handler))
Publish ==
  /\ Idle
  /\ published < MaxPublish
  /\ published' = published + 1
  /\ app' = app \o [k \in DOMAIN PubsubEmit("e.handler") |->
                       Route("e.path", "e.method", PubsubEmit("e.handler")[k], 0)]
  /\ afterClose' = IF app' = app THEN afterClose ELSE "no"
  /\ UNCHANGED << server, open, spdyConfiguration, listenCalls, binding, readyCalls >>
  /\ UNCHANGED << config, flags, hdr, appAtInit >>
  /\ UNCHANGED storefrontVars

Next ==
  \/ \E i \in DOMAIN emitted : GatewayReady(i)
  \/ InitCall
  \/ RegisterDependencies
  \/ WaitForGateways
  \/ WaitTick
  \/ RegisterDebugScripts
  \/ AddCustomHeadersStage
  \/ AddHealthCheckRoute
  \/ PreLoadPages
  \/ PreLoadPagesThen
  \/ AddPageRoute
  \/ FinalCallback
  \/ \E b \in binding : BindComplete(b)
  \/ \E b \in binding : BindFail(b)
  \/ Publish

Spec == Init /\ [][Next]_vars

\* The turns the event loop owes the pipeline: a stage whose predecessor has
\* called its continuation, the timer of the readiness wait, the continuation
\* of the resolved Promise.all, the final callback of series.
PipelineStep ==
  \/ RegisterDependencies
  \/ WaitForGateways
  \/ WaitTick
  \/ RegisterDebugScripts
  \/ AddCustomHeadersStage
  \/ AddHealthCheckRoute
  \/ PreLoadPages
  \/ PreLoadPagesThen
  \/ AddPageRoute
  \/ FinalCallback

\* The startups explored for progress: every gateway and page list, over the
\* plain listener and the bare middleware stack (neither has a part in the
\* pipeline's progress).
LiveInit ==
  \E cfg \in Configs :
    /\ cfg.spdy = NoOptions
    /\ Constructed(cfg, [morgan |-> FALSE, helmet |-> FALSE, brotli |-> FALSE])
    /\ hdr = NoHeaders

\* The startup under an event loop that runs every turn that stays ready.
LiveSpec == LiveInit /\ [][Next]_vars /\ WF_vars(PipelineStep)

\* --------------------------------------------------- the Server on its own
\* A Server constructed and used directly: no Storefront drives it.
NoStorefront(o) ==
  [gateways |-> << >>, pages |-> << >>, spdy |-> o, customHeaders |-> FALSE, failing |-> {}]

DefaultFlags == [morgan |-> FALSE, helmet |-> FALSE, brotli |-> FALSE]

\* `new Server()` followed by useProtocolOptions(o): every protocol
\* configuration, and every setting of the middleware switches.  The switches
\* decide the default stack only and the options the listener only.
ServerInit ==
  \/ \E o \in SpdyConfigs : Constructed(NoStorefront(o), DefaultFlags) /\ hdr = NoHeaders
  \/ \E f \in Flags : Constructed(NoStorefront(NoOptions), f) /\ hdr = NoHeaders

\* Server.setStatic
SetStatic(a, path, staticOptions) ==
  IF ~staticOptions
    THEN AddUse(a, path, "express.static(source)")
    ELSE AddUse(a, path, "express.static(source, staticOptions)")

\* Entries of the stack beyond the default middlewares.
Registered == Len(app) - Len(AddMiddlewares(flags))

ServerAddRoute ==
  /\ Idle
  /\ Registered < MaxRegistrations
  /\ app' = AddRoute(app, "path", "method", "handler", 0)
  /\ afterClose' = IF app' = app THEN afterClose ELSE "no"
  /\ UNCHANGED << server, open, spdyConfiguration, listenCalls, binding, published, readyCalls >>
  /\ UNCHANGED << config, flags, hdr, appAtInit >>
  /\ UNCHANGED storefrontVars

ServerAddUse(path) ==
  /\ Idle
  /\ Registered < MaxRegistrations
  /\ app' = AddUse(app, path, "handler")
  /\ afterClose' = IF app' = app THEN afterClose ELSE "no"
  /\ UNCHANGED << server, open, spdyConfiguration, listenCalls, binding, published, readyCalls >>
  /\ UNCHANGED << config, flags, hdr, appAtInit >>
  /\ UNCHANGED storefrontVars

ServerSetStatic(path, staticOptions) ==
  /\ Idle
  /\ Registered < MaxRegistrations
  /\ app' = SetStatic(app, path, staticOptions)
  /\ afterClose' = IF app' = app THEN afterClose ELSE "no"
  /\ UNCHANGED << server, open, spdyConfiguration, listenCalls, binding, published, readyCalls >>
  /\ UNCHANGED << config, flags, hdr, appAtInit >>
  /\ UNCHANGED storefrontVars

ServerNext ==
  \/ ServerListen
  \/ \E b \in binding : BindComplete(b)
  \/ \E b \in binding : BindFail(b)
  \/ ServerClose
  \/ Publish
  \/ ServerAddRoute
  \/ \E path \in {"", "path"} : ServerAddUse(path)
  \/ \E staticOptions \in BOOLEAN : ServerSetStatic("path", staticOptions)

ServerSpec == ServerInit /\ [][ServerNext]_vars

\* ------------------------------------------- the custom headers on their own
\* A Server, a list of custom headers (or none) and an environment.
HeaderInit ==
  \E list \in CustomHeaderLists, env \in Environments, defined \in BOOLEAN :
    /\ (~defined => list = << >>)
    /\ Constructed([NoStorefront(NoOptions) EXCEPT !.customHeaders = defined], DefaultFlags)
    /\ hdr = [defined |-> defined, list |-> list, env |-> env, res |-> NoResponse,
              requests |-> 0, nexts |-> 0]

CustomHeadersInstalled == \E k \in DOMAIN app : app[k].handler = "customHeaders"

\* server.addCustomHeaders(customHeaders)
ServerAddCustomHeaders ==
  /\ Idle
  /\ ~CustomHeadersInstalled
  /\ app' = AddCustomHeaders(app, hdr.defined)
  /\ afterClose' = IF app' = app THEN afterClose ELSE "no"
  /\ UNCHANGED << server, open, spdyConfiguration, listenCalls, binding, published, readyCalls >>
  /\ UNCHANGED << config, flags, hdr, appAtInit >>
  /\ UNCHANGED storefrontVars

\* A request reaches the middleware that addCustomHeaders installed: every
\* header of the list is set on the response, then next() is called.
HandleRequest ==
  /\ Idle
  /\ CustomHeadersInstalled
  /\ hdr.requests < MaxRequests
  /\ hdr' = [hdr EXCEPT !.res = ForEachHeader(NoResponse, hdr.list, hdr.env),
                        !.requests = @ + 1,
                        !.nexts = @ + 1]
  /\ UNCHANGED << config, flags, appAtInit >>
  /\ UNCHANGED storefrontVars
  /\ UNCHANGED serverVars

HeaderNext ==
  \/ ServerAddCustomHeaders
  \/ HandleRequest

HeaderSpec == HeaderInit /\ [][HeaderNext]_vars

\* ================================================================== claims
Fired == { i \in DOMAIN emitted : emitted[i] >= 1 }
AllFired == Fired = DOMAIN emitted
SomeGatewaySilent == \E i \in DOMAIN emitted : emitted[i] = 0
DistinctNames == Cardinality(Range(config.gateways)) = Len(config.gateways)

Routes == { k \in DOMAIN app : app[k].type = "route" }
HandledBy(h) == { k \in Routes : app[k].handler = h }
PipelineRoutes ==
  HandledBy("debugScript") \cup HandledBy("healthcheck") \cup HandledBy("page.handle")
    \cup HandledBy("page.post")

\* init has called server.listen.
InitListened ==
  \/ \E b \in binding : b.by = "init"
  \/ \E l \in open : l.by = "init"
  \/ pc \in {"binding", "listening", "bindFailed"}

Multiplexed(c) == c.set /\ (H2 \in c.protocols \/ SPDY \in c.protocols)

\* C1: with N gateways of distinct names, the ready-count is the number of
\* gateways that fired at least once (a second ready event of a gateway adds
\* nothing), the test of the readiness wait passes exactly when all N have
\* fired, and the wait has resolved only if all N have fired.
C1_ReadinessIffEveryGatewayFired ==
  DistinctNames =>
    /\ gatewaysReady = Cardinality(Fired)
    /\ (AllFired <=> GatewaysPrepared(gateways, gatewaysReady))
    /\ (2 \in done => AllFired)

\* The wait is suspended with two gateways, one having fired twice and the
\* other not at all.
C1_Witness ==
  /\ Len(config.gateways) = 2
  /\ pc = "waitTimer"
  /\ \E i \in DOMAIN emitted : emitted[i] = 2
  /\ \E j \in DOMAIN emitted : emitted[j] = 0

\* C2: the stages start in the order 1..7 of the list given to series, a stage
\* starts only after the stage before it invoked its continuation, and what a
\* stage registers on the server is there only after the stages before it are
\* done: no debug, health-check or page route before dependency registration
\* and the readiness wait completed.
C2_StagesStartInOrder ==
  /\ \A k \in DOMAIN started : started[k] = k
  /\ \A k \in DOMAIN started : k > 1 => (k - 1) \in done
  /\ PipelineRoutes # {} => {1, 2} \subseteq done
  /\ HandledBy("debugScript") # {} => 3 \in Range(started)
  /\ HandledBy("healthcheck") # {} => 5 \in Range(started)
  /\ HandledBy("page.handle") \cup HandledBy("page.post") # {} => 7 \in Range(started)

\* All seven stages have started, after a readiness wait that suspended, and
\* the debug, health-check and page routes are registered.
C2_Witness ==
  /\ Len(started) = NStages
  /\ suspended
  /\ HandledBy("debugScript") # {}
  /\ HandledBy("healthcheck") # {}
  /\ HandledBy("page.post") # {}

\* C3: whenever init has called server.listen, each of the seven stages has
\* started and has invoked its continuation, and none passed an error.
C3_ListenOnlyAfterAllStages ==
  InitListened => /\ done = 1..NStages
                  /\ Len(started) = NStages
                  /\ err = NoErr

\* init has called listen and the listener is bound, after a readiness wait
\* that suspended.
C3_Witness == pc = "listening" /\ suspended /\ \E l \in open : l.by = "init"

\* C5 as stated: once init is called, while some configured gateway has not
\* fired, the readiness stage is not complete, nothing has been registered on
\* the server since the call, init has not called listen, and no error is
\* reported.
C5_NoRouteWhileGatewaySilent ==
  (called /\ SomeGatewaySilent) =>
    /\ 2 \notin done
    /\ app = appAtInit
    /\ ~InitListened
    /\ err = NoErr /\ pc # "thrown"

\* C5, amended: once init is called, while some configured gateway has not
\* fired, the readiness stage is not complete, no route of the pipeline
\* (debug, health-check, page) and no custom-headers middleware is registered,
\* init has not called listen, and no error is reported; what is registered
\* since the call are routes requested over pubsub only.  A gateway that never
\* fires keeps this so for ever.
C5_NoPipelineRouteWhileGatewaySilent ==
  (called /\ SomeGatewaySilent) =>
    /\ 2 \notin done
    /\ PipelineRoutes = {}
    /\ \A k \in DOMAIN app : k > Len(appAtInit) => app[k].handler = "e.handler"
    /\ SubSeq(app, 1, Len(appAtInit)) = appAtInit
    /\ ~InitListened
    /\ err = NoErr /\ pc # "thrown"

\* The wait is suspended on a gateway that has not fired while another has,
\* and a route requested over pubsub was registered since init was called.
C5_Witness ==
  /\ pc = "waitTimer"
  /\ SomeGatewaySilent
  /\ Fired # {}
  /\ Len(app) > Len(appAtInit)

\* C6: on one Storefront, whatever the number of init calls, no stage starts
\* twice and listen is called at most once; an init call after the first
\* changes nothing of the pipeline.
C6_InitRunsPipelineOnce ==
  /\ [](/\ \A j, k \in DOMAIN started : started[j] = started[k] => j = k
        /\ listenCalls <= 1)
  /\ [][(called /\ reinit' # reinit) =>
          UNCHANGED << pc, next, started, done, listenCalls, app >>]_vars

\* init was called again, and the pipeline of the first call has completed.
C6_Witness == reinit /\ pc = "listening" /\ Len(started) = NStages

\* C7: when the stored protocol configuration lists H2 or SPDY, every listener
\* that listen starts is the multiplexed one, whatever the certificate, the key
\* and the other protocols listed.
C7_MultiplexedTakesPrecedence ==
  \A l \in open : Multiplexed(spdyConfiguration) => l.kind = "spdy"

\* A multiplexed listener is open under a configuration that also has
\* certificate, key and HTTP/1.1, which alone would select TLS.
C7_Witness ==
  /\ \E l \in open : l.kind = "spdy"
  /\ spdyConfiguration.cert /\ spdyConfiguration.key
  /\ HTTP1 \in spdyConfiguration.protocols

\* C8: when the stored configuration lists no multiplexed protocol (or none
\* was stored), every listener started is the TLS one if certificate and key
\* are both present and the plain one otherwise; each listen call starts
\* exactly one listener, of one kind.
C8_TlsExactlyWithCertAndKey ==
  /\ [](/\ \A l \in open :
             ~Multiplexed(spdyConfiguration) =>
               l.kind = (IF spdyConfiguration.set /\ spdyConfiguration.cert
                            /\ spdyConfiguration.key THEN "https" ELSE "http")
        /\ \A l1, l2 \in open : l1.id = l2.id => l1 = l2)
  /\ [][listenCalls' # listenCalls =>
          /\ listenCalls' = listenCalls + 1
          /\ open \subseteq open'
          /\ Cardinality(open' \ open) = 1]_vars

\* A plain listener is open under a configuration with a certificate and no key.
C8_Witness ==
  /\ \E l \in open : l.kind = "http"
  /\ spdyConfiguration.set /\ spdyConfiguration.cert /\ ~spdyConfiguration.key

\* C9 as stated: after close() followed by listen(), whatever was registered
\* before, the route table is the default middleware stack.
C9_CloseThenListenResets ==
  (afterClose # "no" /\ server # 0) => app = AddMiddlewares(flags)

\* C9, amended: after a close() that found and stopped a listener, followed by
\* listen(), the route table is the default middleware stack and holds none
\* of the routes registered before.
C9_StoppingCloseThenListenResets ==
  (afterClose = "stopped" /\ server # 0) => app = AddMiddlewares(flags)

\* A route was published, close() stopped the listener, listen() was called.
C9_Witness == afterClose = "stopped" /\ server # 0 /\ published > 0

\* C10: with no gateway configured waitForGateways never suspends on the
\* polling interval: once started, its continuation has fired.
C10_NoGatewaysNoSuspension ==
  Len(config.gateways) = 0 =>
    /\ ~suspended
    /\ pc # "waitTimer"
    /\ (2 \in Range(started) => 2 \in done)

\* The readiness stage is done with no gateway configured.
C10_Witness == Len(config.gateways) = 0 /\ 2 \in done

\* ---- C11
\* The value the claim gives a header: the content of the environment variable
\* its value names when the header is env-sourced and the variable exists, the
\* literal value otherwise.
ClaimedHeaderValue(h, env) ==
  IF h.isEnv /\ env[h.value].set THEN env[h.value].val ELSE h.value

\* The last entry of the list for each key: the one whose value the response keeps.
LastOfKey(list) ==
  { i \in DOMAIN list : \A j \in DOMAIN list : list[j].key = list[i].key => j <= i }

\* C11: after a request went through the middleware, the response carries every
\* configured header, each with the content of the environment variable named
\* by its value if the header is env-sourced and that variable exists and with
\* the literal value otherwise, and the chain was continued once per request.
C11_EnvValueWhenVariableExists ==
  hdr.requests >= 1 =>
    /\ DOMAIN hdr.res = { hdr.list[i].key : i \in DOMAIN hdr.list }
    /\ \A i \in LastOfKey(hdr.list) :
         hdr.res[hdr.list[i].key] = ClaimedHeaderValue(hdr.list[i], hdr.env)
    /\ hdr.nexts = hdr.requests

\* ---- C12
\* C12: when addPageRoute begins, reCompile() has been called on every
\* configured page and every one of these warm operations has completed.
C12_PagesWarmedBeforeRoutes ==
  7 \in Range(started) =>
    /\ Range(config.pages) \subseteq recompiled
    /\ warming = {}

\* ---- C13
\* C13: with a configured page whose warm operation fails, the warm-up stage
\* hands the failure to its continuation, addPageRoute is not started and init
\* does not call listen.
C13_WarmFailureStopsStartup ==
  config.failing # {} =>
    /\ (6 \in done => err # NoErr)
    /\ 7 \notin Range(started)
    /\ ~InitListened

\* ---- C14
\* Protocol options were stored and the certificate or the key is missing.
CertOrKeyMissing(c) == c.set /\ ~(c.cert /\ c.key)

\* C14 as stated: under protocol options that lack the certificate or the key,
\* no listener of the requested kind is started; the negotiation falls through
\* (multiplexed to TLS, TLS to plain) and the listener started is the plain one.
C14_MisconfigurationFallsThrough ==
  \A l \in open : CertOrKeyMissing(spdyConfiguration) => l.kind = "http"

\* C14, amended: under protocol options that lack the certificate or the key,
\* every listen call still starts a listener; it is the multiplexed one when a
\* multiplexed protocol is listed (that branch does not look at certificate
\* and key) and the plain one otherwise (the TLS branch falls through).
C14_OnlyTlsFallsThrough ==
  /\ [](\A l \in open :
          CertOrKeyMissing(spdyConfiguration) =>
            l.kind = (IF Multiplexed(spdyConfiguration) THEN "spdy" ELSE "http"))
  /\ [][listenCalls' # listenCalls =>
          \E l \in open' : l.id = listenCalls' /\ server' = l.id]_vars

\* A multiplexed listener is open and bound under a configuration with
\* neither certificate nor key.
C14_Witness ==
  /\ \E l \in open : l.kind = "spdy" /\ l.id \notin { b.id : b \in binding }
  /\ ~spdyConfiguration.cert /\ ~spdyConfiguration.key

\* ---- C15
\* Routes of the table that came in as ADD_ROUTE events.
EventRoutes == HandledBy("e.handler")

\* C15: whatever close() and listen() calls come before it, the step that
\* publishes an ADD_ROUTE event is one addRoute call on the route table of
\* that moment (after close(), the rebuilt one), no event route enters the
\* table without an event, and the table never holds more event routes than
\* events were published.
C15_EveryEventForwardedOnce ==
  /\ [][published' # published =>
          /\ published' = published + 1
          /\ app' = AddRoute(app, "e.path", "e.method", "e.handler", 0)]_vars
  /\ [][published' = published =>
          Cardinality(EventRoutes)' <= Cardinality(EventRoutes)]_vars
  /\ [](Cardinality(EventRoutes) <= published)

\* The Server was started and closed, and its rebuilt table holds the route
\* of an event: the event was published after close().
C15_Witness ==
  /\ server = 0 /\ listenCalls > 0
  /\ app = AddRoute(AddMiddlewares(flags), "e.path", "e.method", "e.handler", 0)

\* ---- C16
\* C16: the callback given to init has run at most once, and only with every
\* stage completed and the listener bound; and once the outcome of every bind
\* is known, the callback that listen hands on has run exactly once per listen
\* call, whether the bind succeeded or failed.
C16_CallbackOncePerListen ==
  /\ cbCalls <= 1
  /\ (cbCalls = 1 => done = 1..NStages /\ pc = "listening")
  /\ (binding = {} => readyCalls = listenCalls)

\* ---- C17
\* C17: after any sequence of listen and close calls, with no bind pending, at
\* most one listener is open, this.server designates every listener that is
\* open, and a closed Server (this.server is null) has no listener open.
C17_OneListenerPerServer ==
  binding = {} =>
    /\ Cardinality(open) <= 1
    /\ \A l \in open : l.id = server
    /\ (server = 0 => open = {})

\* ---- C18
\* C18: the ready-count lies between 0 and the number of configured gateways
\* and is the number of distinct gateways that fired at least once; no step
\* lowers it; and once it equals the number of gateways, so that the test of
\* the readiness wait passes, it does so after every later step.
C18_ReadyCountBoundedMonotone ==
  /\ [](/\ 0 <= gatewaysReady
        /\ gatewaysReady <= Len(config.gateways)
        /\ gatewaysReady = Cardinality(Fired)
        /\ Len(config.gateways) = Cardinality(ObjectKeys(gateways)))
  /\ [][gatewaysReady' >= gatewaysReady]_vars
  /\ [][GatewaysPrepared(gateways, gatewaysReady) =>
          GatewaysPrepared(gateways', gatewaysReady')]_vars

\* Both of two gateways are counted, one of them fired again afterwards, and
\* the startup went on to listen.
C18_Witness ==
  /\ Len(config.gateways) = 2 /\ gatewaysReady = 2
  /\ \E i \in DOMAIN emitted : emitted[i] = 2
  /\ pc = "listening"

\* ---- C19
\* C19: the once listener of every gateway is installed from construction on
\* until the gateway's first ready event, so the first event of a gateway is
\* counted whenever it comes (before init, while the readiness wait is
\* suspended, after it); with every gateway fired the test of the wait passes,
\* and the next poll of a suspended wait resolves it.
C19_NoReadySignalLost ==
  /\ [](\A i \in DOMAIN emitted : subscribed[i] <=> emitted[i] = 0)
  /\ [][\A i \in DOMAIN emitted :
          (emitted[i] = 0 /\ emitted'[i] > 0) => gatewaysReady' = gatewaysReady + 1]_vars
  /\ [](AllFired => GatewaysPrepared(gateways, gatewaysReady))
  /\ [][(pc = "waitTimer" /\ AllFired /\ pc' # pc) => (pc' = "run" /\ 2 \in done')]_vars

\* With two gateways the wait was suspended and has just been resolved by a
\* poll: at least one ready event came while init was waiting.
C19_Witness ==
  /\ Len(config.gateways) = 2
  /\ suspended /\ pc = "run" /\ next = 3
  /\ gatewaysReady = 2

\* ---- C20
\* C20: once init has been called and every gateway has fired, and with the
\* event loop running the readiness poll and every other ready turn of the
\* pipeline, all seven stages eventually complete and init calls listen; it
\* never calls it a second time.
C20_StartupCompletes ==
  /\ (called /\ AllFired) ~> (done = 1..NStages /\ listenCalls = 1)
  /\ [](listenCalls <= 1)

\* Two gateways and a page: the wait was suspended, all seven stages are done
\* and the listener that init started is bound.
C20_Witness ==
  /\ Len(config.gateways) = 2 /\ Len(config.pages) = 1
  /\ suspended /\ AllFired
  /\ done = 1..NStages /\ listenCalls = 1 /\ pc = "listening"

====
